---- MODULE Spec2Model ----
(***************************************************************************)
(* Model of the emulator driver and ELF loader of src/src/lib.rs:          *)
(* Emulator::new, run, run_program, run_test, tick and setup_program.      *)
(*                                                                         *)
(* A u64 is a tuple of 8 bytes, least significant first, so that the       *)
(* loader's little-endian reads, its comparisons against 0x80000000 and    *)
(* its u64 additions keep their width.  The CPU, the MMU and the memory    *)
(* are other modules of the crate (cpu.rs, mmu.rs, memory.rs); what the    *)
(* driver needs of them is modelled from the specification's sections      *)
(* 4.1, 4.2 and 4.4.                                                       *)
(***************************************************************************)
EXTENDS Integers, Sequences, FiniteSets, TLC

VARIABLES
  overflow_checks, \* build profile: TRUE = overflow panics, FALSE = wraps
  xlen,            \* cpu.xlen: "Bit32" or "Bit64"
  cpu_pc,          \* cpu.pc, a u64
  is_test,         \* Emulator.is_test
  tohost_addr,     \* Emulator.tohost_addr, a u64
  mem,             \* the MMU's memory: [cap, bytes]
  term,            \* the bytes put to the terminal so far
  data,            \* setup_program's argument
  elf,             \* setup_program's locals once the image is analysed
  copy_i,          \* setup_program's index in the segment-copy loop
  pos,             \* where control is
  mode,            \* the loop entered: "none", "test" or "program"
  via_run,         \* whether the loop was entered through run()
  endcode,         \* run_test's local: the last word polled
  panic,           \* the panic that ended the process, or "none"
  nsetups,         \* setup_program calls started
  dumps,           \* disassembly dumps of the current run
  ticks,           \* CPU ticks of the current run (saturates at MaxTicks in run_program)
  polls            \* polls of the termination word in the current run

vars == <<overflow_checks, xlen, cpu_pc, is_test, tohost_addr, mem, term, data,
          elf, copy_i, pos, mode, via_run, endcode, panic, nsetups, dumps,
          ticks, polls>>

emu == <<xlen, cpu_pc, is_test, tohost_addr, mem, term>>

(***************************************************************************)
(* Bounds of the model.                                                    *)
(***************************************************************************)
MaxTicks == 2

MaxSetups == 2

MaxSections == 2

(***************************************************************************)
(* u64 arithmetic on 8-byte little-endian tuples.                          *)
(***************************************************************************)
Byte == 0..255

Zero == <<0, 0, 0, 0, 0, 0, 0, 0>>

\* `n as u64` for a small natural n (n < 2^31)
FromNat(n) ==
  <<n % 256, (n \div 256) % 256, (n \div 65536) % 256, (n \div 16777216) % 256,
    0, 0, 0, 0>>

\* the carry into byte i of a + b: some lower byte generates it and the bytes
\* between propagate it
Carry(a, b, i) ==
  \E j \in 1..(i - 1) : a[j] + b[j] > 255 /\ \A k \in (j + 1)..(i - 1) : a[k] + b[k] = 255

SumByte(a, b, i) == (a[i] + b[i] + (IF Carry(a, b, i) THEN 1 ELSE 0)) % 256

\* a + b in u64: the wrapped sum and whether it overflowed
Add(a, b) ==
  [val |-> <<SumByte(a, b, 1), SumByte(a, b, 2), SumByte(a, b, 3), SumByte(a, b, 4),
             SumByte(a, b, 5), SumByte(a, b, 6), SumByte(a, b, 7), SumByte(a, b, 8)>>,
   ovf |-> Carry(a, b, 9)]

\* a < b in u64
Less(a, b) ==
  \E i \in 1..8 : a[i] < b[i] /\ \A j \in (i + 1)..8 : a[j] = b[j]

\* a >= b in u64
GreaterEq(a, b) == ~Less(a, b)

\* whether a u64 is below 2^24, and its value then
Small(w) == \A i \in 4..8 : w[i] = 0

Nat3(w) == w[1] + 256 * w[2] + 65536 * w[3]

\* `data[w as usize]` is in bounds (usize is 64 bits wide)
InData(d, w) == Small(w) /\ Nat3(w) < Len(d)

(***************************************************************************)
(* setup_program, lines 148-473: the analysis of the image.  Nothing here  *)
(* touches the emulator; the result is the function's locals or the panic  *)
(* that ended it.                                                          *)
(***************************************************************************)
ELF_MAGIC == <<127, 69, 76, 70>>

\* the magic check of line 151, `||` evaluated left to right:
\* "index" when data[i] is out of bounds, "not_elf" at the first wrong byte
RECURSIVE MagicCheck(_, _)
MagicCheck(d, i) ==
  IF i = 4 THEN "none"
  ELSE IF Len(d) <= i THEN "index"
  ELSE IF d[i + 1] # ELF_MAGIC[i + 1] THEN "not_elf"
  ELSE MagicCheck(d, i + 1)

\* the field loops `for i in 0..n { v |= (data[offset] as u64) << (8 * i); offset += 1 }`
ReadLE(d, offset, n) == [i \in 1..8 |-> IF i <= n THEN d[offset + i] ELSE 0]

\* e_width of lines 157-161, 0 for an unknown class
EWidth(e_class) == IF e_class = 1 THEN 32 ELSE IF e_class = 2 THEN 64 ELSE 0

\* the offset after the last header field read (e_shstrndx, line 246)
HeaderEnd(e_width) == 16 + 2 + 2 + 4 + 3 * (e_width \div 8) + 4 + 2 + 2 + 2 + 2 + 2 + 2

\* e_entry read as four bytes whatever the class
EEntry_FourBytes(d, e_width) == ReadLE(d, 16 + 2 + 2 + 4, 4)

\* e_entry, lines 188-192: header offset 0x10 + 2 + 2 + 4
EEntry(d, e_width) == ReadLE(d, 16 + 2 + 2 + 4, e_width \div 8)

\* e_shoff, lines 200-204
EShoff(d, e_width) == ReadLE(d, 16 + 2 + 2 + 4 + 2 * (e_width \div 8), e_width \div 8)

\* e_shnum, lines 236-240
EShnum(d, e_width) ==
  Nat3(ReadLE(d, 16 + 2 + 2 + 4 + 3 * (e_width \div 8) + 4 + 2 + 2 + 2 + 2, 2))

\* lines 151-246: the panic of the header analysis, "none" when it passes
HeaderPanic(d) ==
  IF MagicCheck(d, 0) # "none" THEN MagicCheck(d, 0)
  ELSE IF Len(d) <= 4 THEN "index"
  ELSE IF EWidth(d[5]) = 0 THEN "unknown_class"
  ELSE IF Len(d) < HeaderEnd(EWidth(d[5])) THEN "index"
  ELSE "none"

\* bytes of one section header: lines 352-410
SectionHeaderSize(e_width) == 4 + 4 + 4 * (e_width \div 8) + 4 + 4 + 2 * (e_width \div 8)

\* the SectionHeader of lines 427-438 read at `offset`
ReadSectionHeader(d, offset, e_width) ==
  LET wb == e_width \div 8
  IN [sh_name   |-> ReadLE(d, offset, 4),
      sh_type   |-> ReadLE(d, offset + 4, 4),
      sh_addr   |-> ReadLE(d, offset + 8 + wb, wb),
      sh_offset |-> ReadLE(d, offset + 8 + 2 * wb, wb),
      sh_size   |-> ReadLE(d, offset + 8 + 3 * wb, wb)]

\* the push of lines 440-444
PushSection(acc, sh) ==
  IF sh.sh_type = FromNat(1)
  THEN [acc EXCEPT !.program_data = Append(@, sh)]
  ELSE IF sh.sh_type = FromNat(3)
  THEN [acc EXCEPT !.string_table = Append(@, sh)]
  ELSE acc

\* the loop of lines 351-445 from its i-th iteration on
RECURSIVE AnalyzeSections(_, _, _, _, _, _)
AnalyzeSections(d, offset, i, e_shnum, e_width, acc) ==
  IF i = e_shnum THEN acc
  ELSE IF offset + SectionHeaderSize(e_width) > Len(d)
  THEN [acc EXCEPT !.panic = "index"]
  ELSE AnalyzeSections(d, offset + SectionHeaderSize(e_width), i + 1, e_shnum, e_width,
                       PushSection(acc, ReadSectionHeader(d, offset, e_width)))

\* lines 347-445: offset = e_shoff as usize, then the loop
SectionHeaders(d, e_width) ==
  LET none == [panic |-> "none", program_data |-> <<>>, string_table |-> <<>>]
      e_shoff == EShoff(d, e_width)
      e_shnum == EShnum(d, e_width)
  IN IF e_shnum = 0 THEN none
     ELSE IF ~Small(e_shoff) THEN [none EXCEPT !.panic = "index"]
     ELSE AnalyzeSections(d, Nat3(e_shoff), 0, e_shnum, e_width, none)

\* ".tohost\null", line 450
tohost_values == <<46, 116, 111, 104, 111, 115, 116, 0>>

\* the loop of lines 459-465 from k on: "found", "notfound", or the panic
RECURSIVE MatchName(_, _, _, _, _)
MatchName(d, oc, sh_name, st, k) ==
  IF k = Len(tohost_values) THEN "found"
  ELSE LET s1 == Add(st.sh_offset, sh_name)
           addr == Add(s1.val, FromNat(k))
           bound == Add(st.sh_offset, st.sh_size)
       IN IF oc /\ (s1.ovf \/ addr.ovf \/ bound.ovf) THEN "overflow"
          ELSE IF GreaterEq(addr.val, bound.val) THEN "notfound"
          ELSE IF ~InData(d, addr.val) THEN "index"
          ELSE IF d[Nat3(addr.val) + 1] # tohost_values[k + 1] THEN "notfound"
          ELSE MatchName(d, oc, sh_name, st, k + 1)

\* the loop of lines 455-469 from j on, for one program-data section:
\* tohost_addr after it, or the panic
RECURSIVE ScanStringTables(_, _, _, _, _, _)
ScanStringTables(d, oc, sh, sts, j, t) ==
  IF j > Len(sts) THEN [panic |-> "none", tohost_addr |-> t]
  ELSE LET m == MatchName(d, oc, sh.sh_name, sts[j], 0)
       IN IF m \in {"overflow", "index"} THEN [panic |-> m, tohost_addr |-> t]
          ELSE ScanStringTables(d, oc, sh, sts, j + 1,
                                IF m = "found" THEN sh.sh_addr ELSE t)

\* the loop of lines 452-473 from i on
RECURSIVE FindTohost(_, _, _, _, _, _)
FindTohost(d, oc, pds, sts, i, t) ==
  IF i > Len(pds) THEN [panic |-> "none", tohost_addr |-> t]
  ELSE LET r == ScanStringTables(d, oc, pds[i], sts, 1, t)
       IN IF r.panic # "none" THEN r
          ELSE IF r.tohost_addr # Zero THEN r
          ELSE FindTohost(d, oc, pds, sts, i + 1, r.tohost_addr)

\* lines 148-473 as a whole
Analyze(d, oc) ==
  LET none == [panic |-> "none", e_width |-> 0, e_entry |-> Zero,
               program_data |-> <<>>, tohost_addr |-> Zero]
  IN IF HeaderPanic(d) # "none" THEN [none EXCEPT !.panic = HeaderPanic(d)]
     ELSE LET e_width == EWidth(d[5])
              shs == SectionHeaders(d, e_width)
              t == FindTohost(d, oc, shs.program_data, shs.string_table, 1, Zero)
          IN IF shs.panic # "none" THEN [none EXCEPT !.panic = shs.panic]
             ELSE IF t.panic # "none" THEN [none EXCEPT !.panic = t.panic]
             ELSE [panic |-> "none", e_width |-> e_width,
                   e_entry |-> EEntry(d, e_width),
                   program_data |-> shs.program_data,
                   tohost_addr |-> t.tohost_addr]

(***************************************************************************)
(* The collaborators of the driver: memory behind the MMU, the CPU and the *)
(* disassembler.  Their code is in the crate's other modules; they are     *)
(* modelled from the specification (sections 3, 4.1, 4.2, 4.4 and 6).      *)
(***************************************************************************)
TEST_MEMORY_CAPACITY == 1024 * 512

PROGRAM_MEMORY_CAPACITY == 1024 * 1024 * 128

\* 0x80000000, the lowest address a section is copied to (line 498); RAM starts there
DRAM_BASE == <<0, 0, 0, 128, 0, 0, 0, 0>>

\* offset of an address in RAM, -1 for an address that is not in 0x80000000..0xFFFFFFFF
RamOffset(addr) ==
  IF (\A i \in 5..8 : addr[i] = 0) /\ addr[4] >= 128
  THEN Nat3(addr) + 16777216 * (addr[4] - 128)
  ELSE -1

InRam(m, addr) == RamOffset(addr) >= 0 /\ RamOffset(addr) < m.cap

\* Memory before init_memory: no capacity
NoMemory == [cap |-> 0, bytes |-> <<>>]

\* Mmu::init_memory(capacity): a zero-filled array of `capacity` bytes
init_memory(capacity) == [cap |-> capacity, bytes |-> <<>>]

\* Mmu::load_raw(addr) for an address of RAM; bytes never stored are zero
load_raw(m, addr) ==
  IF RamOffset(addr) \in DOMAIN m.bytes THEN m.bytes[RamOffset(addr)] ELSE 0

\* Mmu::store_raw(addr, value) for an address of RAM
store_raw(m, addr, value) ==
  LET o == RamOffset(addr)
      dom == IF value = 0 THEN DOMAIN m.bytes \ {o} ELSE DOMAIN m.bytes \cup {o}
  IN [m EXCEPT !.bytes = [x \in dom |-> IF x = o THEN value ELSE m.bytes[x]]]

\* Mmu::load_word_raw(addr): the four addresses read, and the little-endian u32
WordAddrs(addr) == {Add(addr, FromNat(i)).val : i \in 0..3}

WordInRam(m, addr) == \A a \in WordAddrs(addr) : InRam(m, a)

load_word_raw(m, addr) ==
  <<load_raw(m, addr), load_raw(m, Add(addr, FromNat(1)).val),
    load_raw(m, Add(addr, FromNat(2)).val), load_raw(m, Add(addr, FromNat(3)).val)>>

\* Cpu::update_xlen and Cpu::update_pc store their argument
update_xlen(x) == x

update_pc(value) == value

\* Cpu::disassemble_next_instruction: some text ("nop")
disassemble_next_instruction == <<110, 111, 112>>

\* The addresses guest code stores to in the model: the termination word,
\* or the start of RAM when that word is not in RAM
GuestTarget(m, t, i) ==
  IF WordInRam(m, t) THEN Add(t, FromNat(i)).val ELSE Add(DRAM_BASE, FromNat(i)).val

\* Cpu::tick on initialised memory: the states one cycle of guest code may
\* leave.  An instruction stores a byte, writes a byte to the console, or does
\* neither; the pc advances, or stays (a jump to itself) once `spin` holds.
CpuTick(m, tm, pc, t, spin) ==
  IF spin THEN {[mem |-> m, term |-> tm, pc |-> pc]}
  ELSE LET next == Add(pc, FromNat(4)).val
       IN {[mem |-> m, term |-> tm, pc |-> next],
           [mem |-> m, term |-> Append(tm, 33), pc |-> next]}
          \cup {[mem |-> store_raw(m, s[1], s[2]), term |-> tm, pc |-> next]
                : s \in {<<GuestTarget(m, t, 0), 1>>, <<GuestTarget(m, t, 0), 0>>,
                         <<GuestTarget(m, t, 1), 2>>}}

(***************************************************************************)
(* run_test's result message, lines 111-118.                               *)
(***************************************************************************)
\* "Test Passed with " and "Test Failed with "
TestPassed == <<84, 101, 115, 116, 32, 80, 97, 115, 115, 101, 100, 32, 119, 105, 116, 104, 32>>

TestFailed == <<84, 101, 115, 116, 32, 70, 97, 105, 108, 101, 100, 32, 119, 105, 116, 104, 32>>

\* {:X} of a u32: upper-case hexadecimal without leading zeros
HexDigit(n) == IF n < 10 THEN 48 + n ELSE 55 + n

UpperHex(w) ==
  LET nib == [i \in 1..8 |-> IF i % 2 = 1 THEN w[4 - (i - 1) \div 2] \div 16
                                          ELSE w[4 - (i - 1) \div 2] % 16]
      nz == {i \in 1..8 : nib[i] # 0}
      first == IF nz = {} THEN 8 ELSE CHOOSE i \in nz : \A j \in nz : i <= j
  IN [i \in 1..(9 - first) |-> HexDigit(nib[first + i - 1])]

\* the match of lines 111-118 on the low byte of the endcode only
ResultMessage_LowByte(code) ==
  IF code[1] = 1
  THEN TestPassed \o UpperHex(code) \o <<10>>
  ELSE TestFailed \o UpperHex(code) \o <<10>>

\* the match of lines 111-118 on a non-zero endcode
ResultMessage(code) ==
  IF code = <<1, 0, 0, 0>>
  THEN TestPassed \o UpperHex(code) \o <<10>>
  ELSE TestFailed \o UpperHex(code) \o <<10>>

(***************************************************************************)
(* The images given to setup_program: ELF files built from a class byte    *)
(* and a list of sections of the kinds below, and damaged variants.  The   *)
(* file is the header, the section headers, then 18 bytes of content:      *)
(*   "\0.tohost\0.x\0" at 0..11 and the bytes 1 0 0 0 2 3 at 12..17.       *)
(***************************************************************************)
Content == <<0, 46, 116, 111, 104, 111, 115, 116, 0, 46, 120, 0, 1, 0, 0, 0, 2, 3>>

\* the kinds of section that are not string tables
ProgramKinds == {"tohost", "second", "null", "text", "pass", "far", "nobits"}

\* the string tables that end a file's section headers
TablesOf(class) ==
  {<<>>, <<"strtab">>, <<"short">>, <<"short", "strtab">>}
    \cup (IF class = 2 THEN {<<"hugetab">>} ELSE {})

Addr(hi, mid) == <<0, mid, hi, 128, 0, 0, 0, 0>>

\* the section of a kind in a file whose content starts at offset b
Section(kind, b) ==
  CASE kind = "tohost" ->  \* named .tohost, empty
         [type |-> 1, name |-> FromNat(1), addr |-> Addr(0, 16),
          offset |-> FromNat(b + 13), size |-> Zero]
    [] kind = "second" ->  \* named .tohost, no file offset
         [type |-> 1, name |-> FromNat(1), addr |-> Addr(0, 48),
          offset |-> Zero, size |-> FromNat(4)]
    [] kind = "null" ->    \* named .tohost, at address 0
         [type |-> 1, name |-> FromNat(1), addr |-> Zero,
          offset |-> FromNat(b + 12), size |-> FromNat(2)]
    [] kind = "text" ->    \* .x: 0 0 2 3 at 0x80000FFE
         [type |-> 1, name |-> FromNat(9), addr |-> <<254, 15, 0, 128, 0, 0, 0, 0>>,
          offset |-> FromNat(b + 14), size |-> FromNat(4)]
    [] kind = "pass" ->    \* named .tohost: 1 0 at 0x80001000
         [type |-> 1, name |-> FromNat(1), addr |-> Addr(0, 16),
          offset |-> FromNat(b + 12), size |-> FromNat(2)]
    [] kind = "far" ->     \* .x: 2 3 at 0x80080000
         [type |-> 1, name |-> FromNat(9), addr |-> Addr(8, 0),
          offset |-> FromNat(b + 16), size |-> FromNat(2)]
    [] kind = "strtab" ->  \* the names
         [type |-> 3, name |-> Zero, addr |-> Zero,
          offset |-> FromNat(b), size |-> FromNat(12)]
    [] kind = "short" ->   \* the names, cut before the zero that ends ".tohost"
         [type |-> 3, name |-> Zero, addr |-> Zero,
          offset |-> FromNat(b), size |-> FromNat(8)]
    [] kind = "hugetab" -> \* the names, of size 2^64 - b + 4
         [type |-> 3, name |-> Zero, addr |-> Zero,
          offset |-> FromNat(b),
          size |-> <<(65536 - (b - 4)) % 256, (65536 - (b - 4)) \div 256,
                    255, 255, 255, 255, 255, 255>>]
    [] OTHER ->            \* "nobits": named .tohost, of type 8
         [type |-> 8, name |-> FromNat(1), addr |-> Addr(0, 16),
          offset |-> FromNat(b + 16), size |-> FromNat(2)]

LE(w, n) == SubSeq(w, 1, n)

SectionHeaderBytes(sec, wb) ==
  LE(sec.name, 4) \o LE(FromNat(sec.type), 4) \o LE(FromNat(6), wb) \o LE(sec.addr, wb)
    \o LE(sec.offset, wb) \o LE(sec.size, wb) \o LE(FromNat(5), 4) \o LE(FromNat(9), 4)
    \o LE(FromNat(4), wb) \o LE(FromNat(7), wb)

RECURSIVE Concat(_)
Concat(ss) == IF ss = <<>> THEN <<>> ELSE Head(ss) \o Concat(Tail(ss))

\* the entry point written in the header
EntryOf(class) == IF class = 2 THEN <<4, 3, 2, 128, 1, 0, 0, 0>> ELSE <<4, 3, 2, 128, 0, 0, 0, 0>>

Image(class, kinds) ==
  LET wb == IF class = 2 THEN 8 ELSE 4
      hdr == 40 + 3 * wb
      b == hdr + Len(kinds) * (16 + 6 * wb)
  IN ELF_MAGIC \o <<class, 1, 1, 0, 0, 0, 0, 0, 0, 0, 0, 0>>
       \o <<2, 0>> \o <<243, 0>> \o <<1, 0, 0, 0>>
       \o LE(EntryOf(class), wb) \o LE(FromNat(hdr), wb) \o LE(FromNat(hdr), wb)
       \o <<0, 0, 0, 0>> \o LE(FromNat(hdr), 2) \o <<32, 0>> \o <<1, 0>>
       \o LE(FromNat(16 + 6 * wb), 2) \o LE(FromNat(Len(kinds)), 2) \o <<1, 0>>
       \o Concat([i \in 1..Len(kinds) |-> SectionHeaderBytes(Section(kinds[i], b), wb)])
       \o Content

SeqsUpTo(S, n) == UNION {[1..k -> S] : k \in 0..n}

\* up to MaxSections sections followed by the string tables, in either class
WellFormed ==
  UNION {{Image(class, kinds \o tabs) : kinds \in SeqsUpTo(ProgramKinds, MaxSections),
                                        tabs \in TablesOf(class)} : class \in {1, 2}}

\* images that are not ELF, of an unknown class, or cut short
Damaged ==
  LET a == Image(1, <<"tohost", "strtab">>)
      b == Image(2, <<"text">>)
  IN {[a EXCEPT ![i] = 0] : i \in 1..4}
       \cup {[a EXCEPT ![5] = c] : c \in {0, 3}}
       \cup {SubSeq(a, 1, n) : n \in {0, 3, 4, 8, 51, 91, 131, 136}}
       \cup {SubSeq(b, 1, n) : n \in {63, 127, 131, 144}}

\* the images of a first call, and of a later call
Images == WellFormed \cup Damaged

Reloads ==
  {Image(1, <<>>), Image(2, <<"tohost", "strtab">>), Image(1, <<"text", "far">>),
   [Image(1, <<>>) EXCEPT ![1] = 0], SubSeq(Image(2, <<"text">>), 1, 144)}

(***************************************************************************)
(* setup_program, lines 475-505: configuring the CPU and the memory.       *)
(***************************************************************************)
\* the match of lines 478-482
XlenOf(e_width) == IF e_width = 32 THEN "Bit32" ELSE "Bit64"

\* the capacity chosen in lines 484-492
CapacityOf(t) == IF t # Zero THEN TEST_MEMORY_CAPACITY ELSE PROGRAM_MEMORY_CAPACITY

\* line 498 without the test of sh_offset
ShouldCopy_NoOffsetCheck(sh) == GreaterEq(sh.sh_addr, DRAM_BASE) /\ sh.sh_size # Zero

\* the condition of line 498
ShouldCopy(sh) ==
  GreaterEq(sh.sh_addr, DRAM_BASE) /\ sh.sh_offset # Zero /\ sh.sh_size # Zero

\* the loop of lines 499-501 from j on: the memory after it, or the panic that
\* ends it (the operands of store_raw are evaluated before the call)
RECURSIVE CopyBytes(_, _, _, _, _)
CopyBytes(m, d, oc, sh, j) ==
  IF ~Less(FromNat(j), sh.sh_size) THEN [mem |-> m, panic |-> "none"]
  ELSE LET a == Add(sh.sh_addr, FromNat(j))
           o == Add(sh.sh_offset, FromNat(j))
       IN IF oc /\ (a.ovf \/ o.ovf) THEN [mem |-> m, panic |-> "overflow"]
          ELSE IF ~InData(d, o.val) THEN [mem |-> m, panic |-> "index"]
          ELSE IF ~InRam(m, a.val) THEN [mem |-> m, panic |-> "memory"]
          ELSE CopyBytes(store_raw(m, a.val, d[Nat3(o.val) + 1]), d, oc, sh, j + 1)

\* one iteration of the loop of lines 494-503
CopySection(m, d, oc, sh) ==
  IF ShouldCopy(sh) THEN CopyBytes(m, d, oc, sh, 0) ELSE [mem |-> m, panic |-> "none"]

NoElf ==
  [panic |-> "none", e_width |-> 0, e_entry |-> Zero, program_data |-> <<>>,
   tohost_addr |-> Zero]

run_vars == <<mode, via_run, endcode, dumps, ticks, polls>>

\* Emulator::new, lines 61-69
Init ==
  /\ overflow_checks \in BOOLEAN
  /\ xlen \in {"Bit32", "Bit64"}
  /\ cpu_pc = Zero
  /\ is_test = FALSE
  /\ tohost_addr = Zero
  /\ mem = NoMemory
  /\ term = <<>>
  /\ data = <<>>
  /\ elf = NoElf
  /\ copy_i = 0
  /\ pos = "idle"
  /\ mode = "none"
  /\ via_run = FALSE
  /\ endcode = <<0, 0, 0, 0>>
  /\ panic = "none"
  /\ nsetups = 0
  /\ dumps = 0
  /\ ticks = 0
  /\ polls = 0

\* setup_program is called with an image
setup_program(d) ==
  /\ pos = "idle"
  /\ nsetups < MaxSetups
  /\ data' = d
  /\ elf' = NoElf
  /\ copy_i' = 0
  /\ nsetups' = nsetups + 1
  /\ pos' = "setup_analyze"
  /\ UNCHANGED <<overflow_checks, emu, panic, run_vars>>

\* the analysis with update_xlen moved up to the end of the header analysis
setup_analyze_EarlyXlen ==
  /\ pos = "setup_analyze"
  /\ LET a == Analyze(data, overflow_checks)
     IN IF a.panic # "none"
        THEN /\ panic' = a.panic
             /\ pos' = "panicked"
             /\ elf' = elf
             /\ xlen' = IF HeaderPanic(data) = "none"
                        THEN update_xlen(XlenOf(EWidth(data[5]))) ELSE xlen
        ELSE /\ elf' = a
             /\ pos' = "setup_xlen"
             /\ panic' = panic
             /\ xlen' = update_xlen(XlenOf(a.e_width))
  /\ UNCHANGED <<overflow_checks, cpu_pc, is_test, tohost_addr, mem, term, data, copy_i,
                 nsetups, run_vars>>

\* lines 148-473
setup_analyze ==
  /\ pos = "setup_analyze"
  /\ LET a == Analyze(data, overflow_checks)
     IN IF a.panic # "none"
        THEN /\ panic' = a.panic
             /\ pos' = "panicked"
             /\ elf' = elf
        ELSE /\ elf' = a
             /\ pos' = "setup_xlen"
             /\ panic' = panic
  /\ UNCHANGED <<overflow_checks, emu, data, copy_i, nsetups, run_vars>>

\* lines 478-482
setup_update_xlen ==
  /\ pos = "setup_xlen"
  /\ xlen' = update_xlen(XlenOf(elf.e_width))
  /\ pos' = "setup_memory"
  /\ UNCHANGED <<overflow_checks, cpu_pc, is_test, tohost_addr, mem, term, data, elf,
                 copy_i, panic, nsetups, run_vars>>

\* lines 484-492 with an else branch that leaves is_test and tohost_addr alone
setup_init_memory_Stale ==
  /\ pos = "setup_memory"
  /\ is_test' = IF elf.tohost_addr # Zero THEN TRUE ELSE is_test
  /\ tohost_addr' = IF elf.tohost_addr # Zero THEN elf.tohost_addr ELSE tohost_addr
  /\ mem' = init_memory(CapacityOf(elf.tohost_addr))
  /\ copy_i' = 1
  /\ pos' = IF Len(elf.program_data) = 0 THEN "setup_pc" ELSE "setup_copy"
  /\ UNCHANGED <<overflow_checks, xlen, cpu_pc, term, data, elf, panic, nsetups, run_vars>>

\* lines 484-492
setup_init_memory ==
  /\ pos = "setup_memory"
  /\ is_test' = (elf.tohost_addr # Zero)
  /\ tohost_addr' = elf.tohost_addr
  /\ mem' = init_memory(CapacityOf(elf.tohost_addr))
  /\ copy_i' = 1
  /\ pos' = IF Len(elf.program_data) = 0 THEN "setup_pc" ELSE "setup_copy"
  /\ UNCHANGED <<overflow_checks, xlen, cpu_pc, term, data, elf, panic, nsetups, run_vars>>

\* lines 494-503, one section
setup_copy ==
  /\ pos = "setup_copy"
  /\ LET r == CopySection(mem, data, overflow_checks, elf.program_data[copy_i])
     IN /\ mem' = r.mem
        /\ panic' = r.panic
        /\ pos' = IF r.panic # "none" THEN "panicked"
                  ELSE IF copy_i = Len(elf.program_data) THEN "setup_pc"
                  ELSE "setup_copy"
  /\ copy_i' = copy_i + 1
  /\ UNCHANGED <<overflow_checks, xlen, cpu_pc, is_test, tohost_addr, term, data, elf,
                 nsetups, run_vars>>

\* line 505
setup_update_pc ==
  /\ pos = "setup_pc"
  /\ cpu_pc' = update_pc(elf.e_entry)
  /\ pos' = "idle"
  /\ UNCHANGED <<overflow_checks, xlen, is_test, tohost_addr, mem, term, data, elf,
                 copy_i, panic, nsetups, run_vars>>

(***************************************************************************)
(* run, run_program and run_test, lines 71-122.                            *)
(***************************************************************************)
Enter(m, through_run) ==
  /\ mode' = m
  /\ via_run' = through_run
  /\ pos' = IF m = "test" THEN "test_disas" ELSE "program_tick"
  /\ endcode' = <<0, 0, 0, 0>>
  /\ dumps' = 0
  /\ ticks' = 0
  /\ polls' = 0
  /\ UNCHANGED <<overflow_checks, emu, data, elf, copy_i, panic, nsetups>>

\* the match of lines 75-78 with its arms exchanged
LoopOf_Swapped(test) == IF test THEN "program" ELSE "test"

\* the match of lines 75-78
LoopOf(test) == IF test THEN "test" ELSE "program"

\* run(), lines 74-79
run ==
  /\ pos = "idle"
  /\ Enter(LoopOf(is_test), TRUE)

\* run_test() called by the embedder
run_test ==
  /\ pos = "idle"
  /\ Enter("test", FALSE)

\* run_program() called by the embedder
run_program ==
  /\ pos = "idle"
  /\ Enter("program", FALSE)

\* a tick that runs two CPU cycles
tick_Twice(spin) ==
  IF mem.cap = 0
  THEN /\ panic' = "memory"
       /\ pos' = "panicked"
       /\ UNCHANGED <<mem, term, cpu_pc>>
  ELSE /\ \E c \in CpuTick(mem, term, cpu_pc, tohost_addr, spin) :
            \E c2 \in CpuTick(c.mem, c.term, c.pc, tohost_addr, spin) :
              /\ mem' = c2.mem
              /\ term' = c2.term
              /\ cpu_pc' = c2.pc
       /\ panic' = panic

\* Emulator::tick, lines 135-137: one Cpu::tick; without memory the process ends
tick(spin) ==
  IF mem.cap = 0
  THEN /\ panic' = "memory"
       /\ pos' = "panicked"
       /\ UNCHANGED <<mem, term, cpu_pc>>
  ELSE /\ \E c \in CpuTick(mem, term, cpu_pc, tohost_addr, spin) :
            /\ mem' = c.mem
            /\ term' = c.term
            /\ cpu_pc' = c.pc
       /\ panic' = panic

\* the loop of lines 83-85 with run_test's poll and break in it
run_program_tick_Polling ==
  /\ pos = "program_tick"
  /\ tick(ticks >= MaxTicks)
  /\ IF mem.cap = 0 THEN TRUE
     ELSE pos' = IF WordInRam(mem', tohost_addr)
                     /\ load_word_raw(mem', tohost_addr) # <<0, 0, 0, 0>>
                  THEN "returned" ELSE "program_tick"
  /\ ticks' = IF ticks < MaxTicks THEN ticks + 1 ELSE ticks
  /\ UNCHANGED <<overflow_checks, xlen, is_test, tohost_addr, data, elf, copy_i, mode,
                 via_run, endcode, nsetups, dumps, polls>>

\* lines 83-85
run_program_tick ==
  /\ pos = "program_tick"
  /\ tick(ticks >= MaxTicks)
  /\ IF mem.cap = 0 THEN TRUE ELSE pos' = "program_tick"
  /\ ticks' = IF ticks < MaxTicks THEN ticks + 1 ELSE ticks
  /\ UNCHANGED <<overflow_checks, xlen, is_test, tohost_addr, data, elf, copy_i, mode,
                 via_run, endcode, nsetups, dumps, polls>>

\* put_bytes_to_terminal, lines 128-132
put_bytes_to_terminal(tm, bytes) == tm \o bytes

\* lines 97-99
run_test_disas ==
  /\ pos = "test_disas"
  /\ ticks < MaxTicks
  /\ term' = put_bytes_to_terminal(put_bytes_to_terminal(term, disassemble_next_instruction),
                                   <<10>>)
  /\ dumps' = dumps + 1
  /\ pos' = "test_tick"
  /\ UNCHANGED <<overflow_checks, xlen, cpu_pc, is_test, tohost_addr, mem, data, elf,
                 copy_i, mode, via_run, endcode, panic, nsetups, ticks, polls>>

\* line 101
run_test_tick ==
  /\ pos = "test_tick"
  /\ tick(FALSE)
  /\ IF mem.cap = 0 THEN TRUE ELSE pos' = "test_poll"
  /\ ticks' = ticks + 1
  /\ UNCHANGED <<overflow_checks, xlen, is_test, tohost_addr, data, elf, copy_i, mode,
                 via_run, endcode, nsetups, dumps, polls>>

\* line 110 on the low byte of the endcode only
Ends_LowByte(code) == code[1] # 0

\* whether the loop ends on this endcode, line 110
Ends(code) == code # <<0, 0, 0, 0>>

\* lines 109-120
run_test_poll ==
  /\ pos = "test_poll"
  /\ IF ~WordInRam(mem, tohost_addr)
     THEN /\ panic' = "memory"
          /\ pos' = "panicked"
          /\ UNCHANGED <<endcode, term, polls>>
     ELSE \E code \in {load_word_raw(mem, tohost_addr)} :
             /\ endcode' = code
             /\ polls' = polls + 1
             /\ panic' = panic
             /\ IF Ends(code)
                THEN /\ term' = put_bytes_to_terminal(term, ResultMessage(code))
                     /\ pos' = "returned"
                ELSE /\ pos' = "test_disas"
                     /\ term' = term
  /\ UNCHANGED <<overflow_checks, xlen, cpu_pc, is_test, tohost_addr, mem, data, elf,
                 copy_i, mode, via_run, nsetups, dumps, ticks>>

\* the driver's steps, the first setup_program drawing its image from `first`
NextWith(first) ==
  \/ \E d \in (IF nsetups = 0 THEN first ELSE Reloads) : setup_program(d)
  \/ setup_analyze
  \/ setup_update_xlen
  \/ setup_init_memory
  \/ setup_copy
  \/ setup_update_pc
  \/ run
  \/ run_test
  \/ run_program
  \/ run_program_tick
  \/ run_test_disas
  \/ run_test_tick
  \/ run_test_poll

Next == NextWith(Images)

Spec == Init /\ [][Next]_vars

\* The loops run without pause: a step that can be taken is taken.  The
\* behaviours of the loops are examined on a few images: no section, a test
\* image whose termination word starts at zero, one whose word starts at 1.
LoopImages ==
  {Image(1, <<>>), Image(1, <<"tohost", "strtab">>), Image(2, <<"strtab", "pass", "tohost">>),
   Image(2, <<"text", "tohost", "strtab">>), [Image(2, <<>>) EXCEPT ![5] = 3]}

LoopNext == NextWith(LoopImages)

LoopSpec ==
  /\ Init
  /\ [][LoopNext]_vars
  /\ WF_vars(run_program_tick)
  /\ WF_vars(run_test_disas)
  /\ WF_vars(run_test_tick)
  /\ WF_vars(run_test_poll)

TypeOK ==
  /\ xlen \in {"Bit32", "Bit64"}
  /\ is_test \in BOOLEAN
  /\ pos \in {"idle", "setup_analyze", "setup_xlen", "setup_memory", "setup_copy",
              "setup_pc", "test_disas", "test_tick", "test_poll", "program_tick",
              "returned", "panicked"}
  /\ mode \in {"none", "test", "program"}
  /\ panic \in {"none", "not_elf", "unknown_class", "index", "overflow", "memory"}
  /\ \A i \in DOMAIN term : term[i] \in Byte

(***************************************************************************)
(* The claims.                                                             *)
(***************************************************************************)
\* the 32-bit word at tohost_addr, byte by byte, and whether a word is non-zero
TerminationWord ==
  <<load_raw(mem, tohost_addr), load_raw(mem, Add(tohost_addr, FromNat(1)).val),
    load_raw(mem, Add(tohost_addr, FromNat(2)).val),
    load_raw(mem, Add(tohost_addr, FromNat(3)).val)>>

NonZero(w) == \E i \in 1..4 : w[i] # 0

InTestLoop == mode = "test" /\ pos \in {"test_disas", "test_tick", "test_poll"}

C1_Inv ==
  /\ InTestLoop => ~NonZero(endcode)
  /\ (mode = "test" /\ pos = "returned") =>
       /\ NonZero(endcode)
       /\ endcode = TerminationWord
       /\ polls = ticks
       /\ ticks >= 1

C1_Step ==
  /\ (mode = "test" /\ pos = "test_poll" /\ WordInRam(mem, tohost_addr)) =>
       IF NonZero(TerminationWord)
       THEN pos' = "returned" /\ ticks' = ticks /\ polls' = ticks
       ELSE pos' = "test_disas" /\ ticks' = ticks
  /\ (mode = "test" /\ pos = "returned") => (pos' = "returned" /\ ticks' = ticks)
  /\ (mode = "test" /\ pos # "returned" /\ pos' = "returned") =>
       (pos = "test_poll" /\ NonZero(TerminationWord))
  /\ (mode = "test" /\ ticks' # ticks) =>
       (pos = "test_tick" /\ ticks' = ticks + 1 /\ polls = ticks)

\* C1: run_test returns exactly at the first poll that reads a non-zero
\* termination word: every poll that reads non-zero returns with no further
\* tick, every poll that reads zero goes round the loop again, a tick follows
\* only polls that all read zero, and the loop, once at its head with memory
\* set up, does tick again (within the modelled MaxTicks iterations).
C1_FirstNonZeroEndsRun ==
  /\ []C1_Inv
  /\ [][C1_Step]_vars
  /\ \A n \in 0..(MaxTicks - 1) :
       (InTestLoop /\ pos = "test_disas" /\ ticks = n /\ mem.cap > 0) ~> (ticks = n + 1)

\* C1 witness: run_test has returned at the second poll, the first having read zero
C1_Witness ==
  mode = "test" /\ pos = "returned" /\ ticks = 2 /\ polls = 2 /\ NonZero(endcode)

\* where a byte string occurs in the terminal output
Occurrences(tm, w) ==
  {i \in 1..(Len(tm) - Len(w) + 1) : SubSeq(tm, i, i + Len(w) - 1) = w}

\* "Test", "Test Passed", "Test Failed"
TextTest == <<84, 101, 115, 116>>

TextPassed == <<84, 101, 115, 116, 32, 80, 97, 115, 115, 101, 100>>

TextFailed == <<84, 101, 115, 116, 32, 70, 97, 105, 108, 101, 100>>

\* C2: in a run of run_test no result is on the terminal before the return;
\* at the return exactly one result is, it is "Test Passed" when the
\* termination word is 1 and "Test Failed" for any other non-zero word, and
\* its line is the end of the terminal output.
C2_ResultFromPolledWord ==
  mode = "test" =>
    /\ pos # "returned" => Occurrences(term, TextTest) = {}
    /\ pos = "returned" =>
         /\ NonZero(TerminationWord)
         /\ \E i \in 1..Len(term) :
              /\ Occurrences(term, TextTest) = {i}
              /\ SubSeq(term, i, i + 10) =
                   (IF TerminationWord = <<1, 0, 0, 0>> THEN TextPassed ELSE TextFailed)
              /\ term[Len(term)] = 10
              /\ \A j \in i..(Len(term) - 1) : term[j] # 10

\* C2 witness: a run has ended on a word whose low byte is 1 and which is not 1
C2_Witness ==
  /\ mode = "test" /\ pos = "returned"
  /\ TerminationWord = <<1, 2, 0, 0>>
  /\ Occurrences(term, TextFailed) # {}

\* C3 as stated: once run_program is entered the process is in its loop for ever
C3_NeverStopsFromAnyState == mode = "program" => pos = "program_tick"

C3_Inv ==
  (mode = "program" /\ mem.cap > 0) =>
    /\ pos = "program_tick"
    /\ ENABLED run_program_tick
    /\ polls = 0
    /\ endcode = <<0, 0, 0, 0>>
    /\ Occurrences(term, TextTest) = {}

\* C3 (amended): entered with memory initialised, run_program never returns,
\* always has a next tick, reaches every tick count the model counts, and
\* neither polls the termination word nor writes a result, whatever the guest
\* stores.
C3_NeverStopsOnceMemoryIsSet ==
  /\ []C3_Inv
  /\ (mode = "program" /\ mem.cap > 0) ~> (mode = "program" /\ ticks = MaxTicks)

\* C3 witness: run_program on a test image has ticked MaxTicks times and the
\* guest has made the termination word non-zero
C3_Witness ==
  /\ mode = "program" /\ pos = "program_tick" /\ ticks = MaxTicks
  /\ is_test /\ WordInRam(mem, tohost_addr) /\ NonZero(TerminationWord)

\* C7: run() enters run_test exactly when is_test holds and run_program
\* otherwise; a run() that returned ran a test image; on a fresh emulator
\* run() enters run_program.
C7_RunChoosesLoop ==
  via_run =>
    /\ (mode = "test") <=> is_test
    /\ (mode = "program") <=> ~is_test
    /\ pos = "returned" => (is_test /\ nsetups > 0)
    /\ polls > 0 => is_test
    /\ nsetups = 0 => mode = "program"

\* C7 witness: run() has returned
C7_Witness == via_run /\ pos = "returned" /\ is_test /\ mode = "test"

C10_Inv ==
  mode = "test" =>
    /\ polls <= ticks /\ ticks <= dumps /\ dumps <= polls + 1
    /\ pos = "test_disas" => (dumps = ticks /\ ticks = polls)
    /\ pos = "test_tick" => (dumps = ticks + 1 /\ ticks = polls)
    /\ pos = "test_poll" => (dumps = ticks /\ ticks = polls + 1)
    /\ pos = "returned" => (dumps = ticks /\ ticks = polls /\ ticks >= 1)

C10_Step ==
  mode = "test" =>
    /\ dumps' # dumps =>
         /\ dumps' = dumps + 1
         /\ term' = term \o disassemble_next_instruction \o <<10>>
         /\ UNCHANGED <<ticks, polls, mem, cpu_pc>>
    /\ ticks' # ticks =>
         /\ ticks' = ticks + 1
         /\ UNCHANGED <<dumps, polls>>
         /\ panic' = "none" => cpu_pc' = Add(cpu_pc, FromNat(4)).val
    /\ polls' # polls =>
         /\ polls' = polls + 1
         /\ UNCHANGED <<dumps, ticks, mem, cpu_pc>>

\* C10: an iteration of run_test is one dump (the disassembly and a newline on
\* the terminal), then one tick (one CPU cycle), then one poll; the counts of
\* dumps, ticks and polls never differ by more than one, no poll precedes the
\* first tick, and a run that returned has ticked at least once.
C10_DumpTickPoll == []C10_Inv /\ [][C10_Step]_vars

\* C10 witness: the termination word is non-zero before the first tick, and
\* the loop is at that tick, no poll made
C10_Witness ==
  /\ mode = "test" /\ pos = "test_tick"
  /\ dumps = 1 /\ ticks = 0 /\ polls = 0
  /\ WordInRam(mem, tohost_addr) /\ NonZero(TerminationWord)

InSetup == pos \in {"setup_analyze", "setup_xlen", "setup_memory", "setup_copy", "setup_pc"}

\* setup_program has returned and nothing ran since
SetupDone == pos = "idle" /\ nsetups > 0

\* the first four bytes are not 0x7f 'E' 'L' 'F', or the class byte is neither 1 nor 2
BadHeader(d) ==
  \/ ~(Len(d) >= 4 /\ SubSeq(d, 1, 4) = <<127, 69, 76, 70>>)
  \/ ~(Len(d) >= 5 /\ d[5] \in {1, 2})

C4_Inv ==
  panic \in {"not_elf", "unknown_class"} =>
    (pos = "panicked" /\ mode = "none" /\ ticks = 0 /\ BadHeader(data))

C4_Step ==
  /\ (pos = "setup_analyze" /\ BadHeader(data)) =>
       (pos' = "panicked" /\ UNCHANGED emu /\ UNCHANGED <<mode, ticks>>)
  /\ (pos = "setup_analyze" /\ pos' = "panicked") => UNCHANGED emu
  /\ (pos = "idle" /\ pos' = "setup_analyze") => UNCHANGED emu
  /\ (InSetup /\ emu' # emu) =>
       (pos \in {"setup_xlen", "setup_memory", "setup_copy", "setup_pc"} /\ panic = "none")

\* C4: setup_program on an image with a bad magic number or an unknown class
\* panics with the emulator as it was and no tick executed; any panic of the
\* analysis (header, section headers, section names) leaves the emulator as it
\* was, and the emulator first changes after the analysis has passed.
C4_LoadErrorsBeforeMutation == []C4_Inv /\ [][C4_Step]_vars

\* C4 witness: a second setup_program has panicked on a bad magic number, the
\* emulator still set up for the test image loaded first
C4_Witness ==
  /\ pos = "panicked" /\ panic = "not_elf" /\ nsetups = 2
  /\ is_test /\ mem.cap = TEST_MEMORY_CAPACITY

\* the little-endian value of the n bytes of d from offset `at`
LittleEndian(d, at, n) == [i \in 1..8 |-> IF i <= n THEN d[at + i] ELSE 0]

C5_Inv ==
  /\ SetupDone =>
       /\ (xlen = "Bit32") <=> (data[5] = 1)
       /\ (xlen = "Bit64") <=> (data[5] = 2)
       /\ cpu_pc = LittleEndian(data, 24, IF data[5] = 1 THEN 4 ELSE 8)
  /\ pos = "setup_pc" => (mem.cap > 0 /\ copy_i > Len(elf.program_data))

C5_Step ==
  InSetup =>
    /\ cpu_pc' # cpu_pc => pos = "setup_pc"
    /\ pos = "setup_pc" =>
         (pos' = "idle" /\ UNCHANGED <<xlen, is_test, tohost_addr, mem, term>>)
    /\ pos' = "idle" => pos = "setup_pc"

\* C5: after a successful setup_program the width is Bit32 exactly for class
\* 1 and Bit64 exactly for class 2, and the pc is the little-endian value of
\* the width/8 bytes at header offset 0x18; the pc is written by the last
\* step, after the memory is initialised and every section is copied.
C5_WidthAndEntry == []C5_Inv /\ [][C5_Step]_vars

\* C5 witness: a 64-bit image whose entry point has a bit above bit 31 is loaded
C5_Witness ==
  SetupDone /\ xlen = "Bit64" /\ data[5] = 2 /\ cpu_pc = <<4, 3, 2, 128, 1, 0, 0, 0>>

C6_Inv ==
  /\ is_test <=> (tohost_addr # Zero)
  /\ SetupDone => mem.cap > 0
  /\ mem.cap > 0 => mem.cap = (IF is_test THEN 512 * 1024 ELSE 128 * 1024 * 1024)

C6_Step ==
  (pos = "setup_memory" /\ elf.tohost_addr = Zero) =>
    (~is_test' /\ tohost_addr' = Zero /\ mem'.cap = 128 * 1024 * 1024)

\* C6: is_test holds exactly when tohost_addr is non-zero, in every state; the
\* memory of a set-up emulator has 512 KiB exactly when is_test holds and 128
\* MiB otherwise; setting up an image without a termination address resets
\* is_test and tohost_addr.
C6_TestFlagAndCapacity == []C6_Inv /\ [][C6_Step]_vars

\* C6 witness: a second setup_program has loaded an image that is not a test
C6_Witness ==
  /\ SetupDone /\ nsetups = 2
  /\ ~is_test /\ tohost_addr = Zero /\ mem.cap = PROGRAM_MEMORY_CAPACITY

\* the section headers of a loaded image, in header order
WidthOf(d) == IF d[5] = 1 THEN 32 ELSE 64

SectionsOf(d) ==
  [i \in 1..EShnum(d, WidthOf(d)) |->
     ReadSectionHeader(d, Nat3(EShoff(d, WidthOf(d))) + (i - 1) * SectionHeaderSize(WidthOf(d)),
                       WidthOf(d))]

\* sums of u64 fields as numbers: hi counts the multiples of 2^64
Below(x, y) == x.hi < y.hi \/ (x.hi = y.hi /\ Less(x.lo, y.lo))

\* strtab.sh_offset + section.sh_name + k
NameOffset(st, sec, k) ==
  [hi |-> (IF Add(st.sh_offset, sec.sh_name).ovf THEN 1 ELSE 0)
            + (IF Add(Add(st.sh_offset, sec.sh_name).val, FromNat(k)).ovf THEN 1 ELSE 0),
   lo |-> Add(Add(st.sh_offset, sec.sh_name).val, FromNat(k)).val]

\* strtab.sh_offset + strtab.sh_size
TableEnd(st) ==
  [hi |-> IF Add(st.sh_offset, st.sh_size).ovf THEN 1 ELSE 0,
   lo |-> Add(st.sh_offset, st.sh_size).val]

\* the 8 bytes of the section's name in the string table lie below the
\* table's end and are ".tohost" and a zero byte
NamedTohost(d, st, sec) ==
  \A k \in 0..7 :
    /\ Below(NameOffset(st, sec, k), TableEnd(st))
    /\ NameOffset(st, sec, k).hi = 0
    /\ InData(d, NameOffset(st, sec, k).lo)
    /\ d[Nat3(NameOffset(st, sec, k).lo) + 1] = <<46, 116, 111, 104, 111, 115, 116, 0>>[k + 1]

\* the program-data sections with a non-zero address that some string table names .tohost
TohostSections(d) ==
  {i \in DOMAIN SectionsOf(d) :
     /\ SectionsOf(d)[i].sh_type = FromNat(1)
     /\ SectionsOf(d)[i].sh_addr # Zero
     /\ \E j \in DOMAIN SectionsOf(d) :
          /\ SectionsOf(d)[j].sh_type = FromNat(3)
          /\ NamedTohost(d, SectionsOf(d)[j], SectionsOf(d)[i])}

First(S) == CHOOSE i \in S : \A j \in S : i <= j

\* C8: after a successful setup_program the image is a test exactly when a
\* program-data section with a non-zero address is named ".tohost" by some
\* string table (the 8 bytes at sh_offset + sh_name + k below sh_offset +
\* sh_size), and tohost_addr is the address of the first such section.
C8_TohostDetection ==
  SetupDone =>
    /\ is_test <=> (TohostSections(data) # {})
    /\ TohostSections(data) # {} =>
         tohost_addr = SectionsOf(data)[First(TohostSections(data))].sh_addr

\* the sums of the name lookup stay below 2^64 for every pair of sections
NoNameOverflow(d) ==
  \A i, j \in DOMAIN SectionsOf(d) :
    (SectionsOf(d)[i].sh_type = FromNat(1) /\ SectionsOf(d)[j].sh_type = FromNat(3)) =>
      /\ TableEnd(SectionsOf(d)[j]).hi = 0
      /\ \A k \in 0..7 : NameOffset(SectionsOf(d)[j], SectionsOf(d)[i], k).hi = 0

\* C8, for images whose sums do not overflow: the detection is as stated
C8_TohostDetectionWithoutOverflow ==
  (SetupDone /\ NoNameOverflow(data)) =>
    /\ is_test <=> (TohostSections(data) # {})
    /\ TohostSections(data) # {} =>
         tohost_addr = SectionsOf(data)[First(TohostSections(data))].sh_addr

\* C8 witness: the second section named .tohost gave the address, the first being at 0
C8_Witness ==
  /\ SetupDone /\ is_test /\ NoNameOverflow(data)
  /\ Cardinality(TohostSections(data)) = 1
  /\ First(TohostSections(data)) = 2
  /\ SectionsOf(data)[1].sh_name = FromNat(1)

\* the program-data sections of a loaded image, in header order
ProgramDataOf(d) == SelectSeq(SectionsOf(d), LAMBDA sh : sh.sh_type = FromNat(1))

\* sh_addr >= 0x80000000, sh_offset > 0 and sh_size > 0
IsCopied(sh) ==
  /\ sh.sh_addr[4] >= 128 \/ \E i \in 5..8 : sh.sh_addr[i] # 0
  /\ \E i \in 1..8 : sh.sh_offset[i] # 0
  /\ \E i \in 1..8 : sh.sh_size[i] # 0

\* the j for which sh_addr + j is the address of RAM offset o, as a set
IndexAt(sh, o) ==
  {j \in 0..(Nat3(sh.sh_size) - 1) : RamOffset(Add(sh.sh_addr, FromNat(j)).val) = o}

\* the copied sections that cover RAM offset o
Covering(d, o) ==
  {i \in DOMAIN ProgramDataOf(d) :
     IsCopied(ProgramDataOf(d)[i]) /\ IndexAt(ProgramDataOf(d)[i], o) # {}}

Last(S) == CHOOSE i \in S : \A j \in S : j <= i

\* the byte the last covering section has for RAM offset o
CopiedByte(d, o) ==
  d[Nat3(ProgramDataOf(d)[Last(Covering(d, o))].sh_offset)
      + First(IndexAt(ProgramDataOf(d)[Last(Covering(d, o))], o)) + 1]

\* the RAM offsets of all the sections' ranges
RamOffsetsOf(d) ==
  UNION {{RamOffset(Add(ProgramDataOf(d)[i].sh_addr, FromNat(j)).val) :
            j \in 0..(Nat3(ProgramDataOf(d)[i].sh_size) - 1)} : i \in DOMAIN ProgramDataOf(d)}

ByteAt(o) == IF o \in DOMAIN mem.bytes THEN mem.bytes[o] ELSE 0

\* C9: after a successful setup_program every byte of a copied section's range
\* holds the file's byte (of the last section that covers it), and every other
\* byte of memory is zero as init_memory left it.
C9_SegmentCopy ==
  SetupDone =>
    \A o \in (DOMAIN mem.bytes \cup RamOffsetsOf(data)) \ {-1} :
      ByteAt(o) = IF Covering(data, o) = {} THEN 0 ELSE CopiedByte(data, o)

\* C9 witness: two copied sections overlap at 0x80001000 and the later one's byte is there
C9_Witness ==
  /\ SetupDone
  /\ Cardinality(Covering(data, 4096)) = 2
  /\ ByteAt(4096) = 2 /\ ByteAt(4097) = 3
  /\ ProgramDataOf(data)[1].sh_size = FromNat(2)

====
